---- MODULE Spec2Model ----
(***************************************************************************)
(* Session/transport management of the HTTP-hosted pinata-mcp server.      *)
(*                                                                         *)
(* Two hosts are modelled, selected by env.variant:                        *)
(*   "shared" : handleMCPSession / createAndSetupTransport                 *)
(*              (src/unnamed/part_003), StreamableHTTPServerTransport      *)
(*   "vercel" : the serverless handler (src/api/index.ts),                 *)
(*              SSEServerTransport, one Server instance per session        *)
(*                                                                         *)
(* A request handler runs to its first await as one step; every await is   *)
(* a suspension point at which other handlers and closure signals run.     *)
(* The synchronous part of a handler is an operator from the request and   *)
(* the current state to the state it leaves, applied by the action Handle. *)
(***************************************************************************)
EXTENDS Integers, FiniteSets, Sequences, Bags, TLC

VARIABLES
    env,          \* process environment and host wiring, fixed at start
    transports,   \* the session store: session id -> transport (NoTransport = no entry)
    servers,      \* vercel only: session id -> Server instance (NoTransport = no entry)
    objs,         \* the transport objects created so far, in creation order
    uuids,        \* number of identifiers randomUUID() has produced
    inflight,     \* bag of handler invocations suspended at an await
    reply         \* the outcome a handler just produced (NoReply = none)

vars == <<env, transports, servers, objs, uuids, inflight, reply>>

----------------------------------------------------------------------------
(* Bounds *)

MaxTransports == 2      \* transports created in one run
MaxInFlight == 2        \* handler invocations suspended at the same time
MaxCloseSignals == 2    \* closure signals raised in one run
MaxEnvLen == 3          \* length of the MCP_API_KEYS value (SpecAuth)
MaxKeyLen == 2          \* length of a presented x-api-key value (SpecAuth)

----------------------------------------------------------------------------
(* Values *)

Undefined == "undefined"            \* JS undefined for string-valued slots
Absent == <<"undefined">>           \* JS undefined for character-sequence slots
NoTransport == 0
NoReply == [by |-> "none"]
NoId == "none"                      \* the body has no id member
Null == "null"                      \* JSON null in a reply

\* Identifiers randomUUID() hands out, in order.
UUIDs == <<"uuid-1", "uuid-2", "uuid-3", "uuid-4", "uuid-5", "uuid-6">>
ClientIds == {"x"}
SessionIds == ClientIds \cup {UUIDs[n] : n \in 1..Len(UUIDs)}

\* JS truthiness of a string | undefined
Truthy(s) == s \notin {Undefined, ""}

Methods == {"initialize", "notifications/initialized", "tools/list"}
\* JSON-RPC ids: absent, the number 0, the number 1
RequestIds == {NoId, "0", "1"}
\* JS truthiness of a JSON id (number): 0 and a missing id are falsy
TruthyId(id) == id \notin {NoId, "0"}

Body(method, params, id) == [method |-> method, params |-> params, id |-> id, empty |-> FALSE]
NoBody == [method |-> Undefined, params |-> FALSE, id |-> NoId, empty |-> TRUE]
\* every body a client can send
AllBodies ==
    {NoBody} \cup
    {Body(m, p, i) : m \in Methods, p \in BOOLEAN, i \in RequestIds}
\* the bodies sent in Spec: a missing body, an initialize message, one that
\* fails the schema check of its params, a notification (no id), and a call
\* whose id is the number 0
Bodies ==
    {NoBody,
     Body("initialize", TRUE, "1"),
     Body("initialize", FALSE, "1"),
     Body("notifications/initialized", FALSE, NoId),
     Body("tools/list", FALSE, "0")}

----------------------------------------------------------------------------
(* Authentication gate *)

Chars == {"a", "b", ",", " "}

RECURSIVE SplitFrom(_, _, _)
\* s.split(","): the pieces of s between commas; cur is the piece being read
SplitFrom(s, i, cur) ==
    IF i > Len(s) THEN <<cur>>
    ELSE IF s[i] = "," THEN <<cur>> \o SplitFrom(s, i + 1, <<>>)
    ELSE SplitFrom(s, i + 1, Append(cur, s[i]))

Split(s) == SplitFrom(s, 1, <<>>)

RECURSIVE TrimStart(_)
TrimStart(s) == IF s # <<>> /\ Head(s) = " " THEN TrimStart(Tail(s)) ELSE s

RECURSIVE TrimEnd(_)
TrimEnd(s) ==
    IF s # <<>> /\ s[Len(s)] = " " THEN TrimEnd(SubSeq(s, 1, Len(s) - 1)) ELSE s

\* String.prototype.trim
Trim(s) == TrimEnd(TrimStart(s))

\* new Set(process.env.MCP_API_KEYS?.split(",").map((key) => key.trim()) || [])
ParseApiKeys(value) ==
    IF value = Absent THEN {}
    ELSE {Trim(Split(value)[i]) : i \in 1..Len(Split(value))}

API_KEYS == ParseApiKeys(env.MCP_API_KEYS)

\* !apiKey
FalsyKey(apiKey) == apiKey = Absent \/ apiKey = <<>>

\* a gate that tests membership only, without the !apiKey test
checkAuthMembershipOnly(keys, apiKey) ==
    IF keys = {} THEN TRUE ELSE apiKey \in keys

\* checkAuth / checkAndRespond: TRUE = authenticated
checkAuth(keys, apiKey) ==
    IF keys = {} THEN TRUE
    ELSE IF FalsyKey(apiKey) \/ apiKey \notin keys THEN FALSE
    ELSE TRUE

----------------------------------------------------------------------------
(* Requests *)

\* isInitializeRequest(req.body): the SDK's schema check, method and params
isInitializeRequest(body) ==
    ~body.empty /\ body.method = "initialize" /\ body.params

\* a lookup that ignores a transport whose connect has not returned
KnownOnceConnected(sessionId) ==
    /\ Truthy(sessionId)
    /\ transports[sessionId] # NoTransport
    /\ \A inv \in BagToSet(inflight) :
          inv.transport = transports[sessionId] => inv.pc # "connecting"

\* sessionId && transports[sessionId]
Known(sessionId) == Truthy(sessionId) /\ transports[sessionId] # NoTransport

\* values a client can put in the mcp-session-id header
SessionHeaders == {Undefined, ""} \cup ClientIds \cup {UUIDs[n] : n \in 1..uuids}

\* x-api-key values presented in Spec
PresentedKeys == {Absent, <<>>, <<"a">>, <<"b">>}

\* The requests sent in Spec. handleMCPSession reads neither the HTTP method
\* nor the key. An empty header on an initialize message is left to the
\* properties of the router: the handlers treat it as a missing header.
Requests ==
    {req \in [http : {"GET", "POST"}, sessionId : SessionHeaders,
              apiKey : PresentedKeys, body : Bodies] :
        /\ env.variant = "shared" => req.http = "POST" /\ req.apiKey = Absent
        /\ req.http = "GET" =>
              req.sessionId = Undefined /\ req.apiKey = Absent /\ req.body = NoBody
        /\ req.sessionId = "" => req.body.method # "initialize"}

\* req.body?.id || null
ReplyId(body) == IF TruthyId(body.id) THEN body.id ELSE Null

\* what a handler wrote to res, or how it ended without writing
Outcome(by, status, jsonrpc, code, id) ==
    [by |-> by, status |-> status, jsonrpc |-> jsonrpc, code |-> code, id |-> id]

\* a handler invocation suspended at an await, with the locals it still reads
Invocation(pc, req, t) ==
    [pc |-> pc, sessionId |-> req.sessionId, body |-> req.body, transport |-> t]

Quiet == reply = NoReply

----------------------------------------------------------------------------
(* Transport objects *)

\* new transport: shared installs onclose before connecting (lines 74-84),
\* vercel only after server.connect returned (lines 142-151)
NewTransport(sessionId) ==
    [forcedSessionId |-> IF env.variant = "shared" /\ Truthy(sessionId)
                         THEN sessionId ELSE Undefined,
     generated |-> Undefined,
     onclose |-> env.variant = "shared",
     closureSid |-> sessionId,
     attached |-> FALSE,
     closes |-> 0,
     deletes |-> 0,
     cleanups |-> 0]

\* transport.sessionId as the library reports it: the identifier generated at
\* initialization; before that the forced private field, if the library's
\* sessionId is backed by that field
SessionIdOf(o) ==
    IF o.generated # Undefined THEN o.generated
    ELSE IF env.fieldBacked THEN o.forcedSessionId
    ELSE Undefined

----------------------------------------------------------------------------
(* Initial state *)

EmptyStore == [k \in SessionIds |-> NoTransport]

Envs ==
    [variant : {"shared"}, PINATA_JWT : {TRUE}, MCP_API_KEYS : {Absent},
     fieldBacked : BOOLEAN]
    \cup
    [variant : {"vercel"}, PINATA_JWT : BOOLEAN, MCP_API_KEYS : {Absent, <<"a">>},
     fieldBacked : {FALSE}]

Init ==
    /\ env \in Envs
    /\ transports = EmptyStore
    /\ servers = EmptyStore
    /\ objs = <<>>
    /\ uuids = 0
    /\ inflight = EmptyBag
    /\ reply = NoReply

----------------------------------------------------------------------------
(* The synchronous part of a request handler: the state it leaves *)

\* delete store[sid]
Delete(store, sid) == [store EXCEPT ![sid] = NoTransport]

\* the handler answered and returned; nothing else changed
Respond(r) ==
    [transports |-> transports, servers |-> servers, objs |-> objs,
     inflight |-> inflight, reply |-> r]

\* a reuse path that refuses a request while the session has one in handling
ReuseOneAtATime(req) ==
    IF \E inv \in BagToSet(inflight) :
          inv.pc = "handling" /\ inv.transport = transports[req.sessionId]
    THEN Respond(Outcome("router", 409, TRUE, -32000, ReplyId(req.body)))
    ELSE [transports |-> transports, servers |-> servers, objs |-> objs,
          inflight |-> inflight (+)
                       SetToBag({Invocation("handling", req, transports[req.sessionId])}),
          reply |-> NoReply]

\* a reuse path that drops the entry of the session once it has the transport
ReuseAndEvict(req) ==
    [transports |-> Delete(transports, req.sessionId),
     servers |-> Delete(servers, req.sessionId),
     objs |-> objs,
     inflight |-> inflight (+)
                  SetToBag({Invocation("handling", req, transports[req.sessionId])}),
     reply |-> NoReply]

\* reuse path: the stored transport is taken and handed the request
Reuse(req) ==
    [transports |-> transports, servers |-> servers, objs |-> objs,
     inflight |-> inflight (+)
                  SetToBag({Invocation("handling", req, transports[req.sessionId])}),
     reply |-> NoReply]

\* a creation that leaves every registration to the session-initialized callback
createWithoutRegistering(req) ==
    [transports |-> transports,
     servers |-> servers,
     objs |-> Append(objs, NewTransport(req.sessionId)),
     inflight |-> inflight (+)
                  SetToBag({Invocation("connecting", req, Len(objs) + 1)}),
     reply |-> NoReply]

\* a creation that registers a transport made without a header at once, under
\* the identifier the generator will hand out
createRegisteringEagerly(req) ==
    LET t == Len(objs) + 1
        sid == IF Truthy(req.sessionId) THEN req.sessionId ELSE UUIDs[uuids + 1]
    IN [transports |-> [transports EXCEPT ![sid] = t],
        servers |-> servers,
        objs |-> Append(objs, NewTransport(req.sessionId)),
        inflight |-> inflight (+) SetToBag({Invocation("connecting", req, t)}),
        reply |-> NoReply]

\* createAndSetupTransport (lines 55-97) up to await server.connect
createAndSetupTransport(req) ==
    LET t == Len(objs) + 1
        sid == req.sessionId
    IN [transports |-> IF Truthy(sid) THEN [transports EXCEPT ![sid] = t]
                       ELSE transports,
        servers |-> servers,
        objs |-> Append(objs, NewTransport(sid)),
        inflight |-> inflight (+) SetToBag({Invocation("connecting", req, t)}),
        reply |-> NoReply]

\* a router that tests for an initialize message before it looks in the store
handleMCPSessionInitFirst(req) ==
    IF isInitializeRequest(req.body) THEN createAndSetupTransport(req)
    ELSE IF Known(req.sessionId) THEN Reuse(req)
    ELSE IF Truthy(req.sessionId) /\ transports[req.sessionId] = NoTransport
    THEN Respond(Outcome("router", 404, TRUE, -32001, ReplyId(req.body)))
    ELSE Respond(Outcome("router", 400, TRUE, -32000, ReplyId(req.body)))

\* a router without the session-not-found branch
handleMCPSessionNo404(req) ==
    IF Known(req.sessionId) THEN Reuse(req)
    ELSE IF isInitializeRequest(req.body) THEN createAndSetupTransport(req)
    ELSE Respond(Outcome("router", 400, TRUE, -32000, ReplyId(req.body)))

\* handleMCPSession (lines 146-235) up to its first await
handleMCPSession(req) ==
    IF Known(req.sessionId) THEN Reuse(req)
    ELSE IF isInitializeRequest(req.body) THEN createAndSetupTransport(req)
    ELSE IF Truthy(req.sessionId) /\ transports[req.sessionId] = NoTransport
    THEN Respond(Outcome("router", 404, TRUE, -32001, ReplyId(req.body)))
    ELSE Respond(Outcome("router", 400, TRUE, -32000, ReplyId(req.body)))

\* a creation that registers a session without a header under a generated id
createRegisteringGenerated(req) ==
    LET t == Len(objs) + 1
        sid == IF Truthy(req.sessionId) THEN req.sessionId ELSE UUIDs[uuids + 1]
    IN [transports |-> [transports EXCEPT ![sid] = t],
        servers |-> [servers EXCEPT ![sid] = t],
        objs |-> Append(objs, NewTransport(req.sessionId)),
        inflight |-> inflight (+) SetToBag({Invocation("connecting", req, t)}),
        reply |-> NoReply]

\* vercel handler lines 132-142: new Server and transport, stored under the
\* header's id if there is one, up to await server.connect
CreateVercel(req) ==
    LET t == Len(objs) + 1
        sid == req.sessionId
    IN [transports |-> IF Truthy(sid) THEN [transports EXCEPT ![sid] = t]
                       ELSE transports,
        servers |-> IF Truthy(sid) THEN [servers EXCEPT ![sid] = t]
                    ELSE servers,
        objs |-> Append(objs, NewTransport(sid)),
        inflight |-> inflight (+) SetToBag({Invocation("connecting", req, t)}),
        reply |-> NoReply]

\* a vercel handler that opens a session for any message without a session id
handlerCreatesWithoutSession(req) ==
    IF req.http = "GET"
    THEN Respond(Outcome("handler", 200, FALSE, 0, Null))
    ELSE IF ~env.PINATA_JWT
    THEN Respond(Outcome("handler", 500, FALSE, 0, Null))
    ELSE IF ~checkAuth(API_KEYS, req.apiKey)
    THEN Respond(Outcome("gate", 401, FALSE, 0, Null))
    ELSE IF req.body.empty
    THEN Respond(Outcome("handler", 400, FALSE, 0, Null))
    ELSE IF Known(req.sessionId) THEN Reuse(req)
    ELSE IF req.body.method = "initialize" \/ ~Truthy(req.sessionId)
    THEN CreateVercel(req)
    ELSE Respond(Outcome("router", 404, TRUE, -32001, ReplyId(req.body)))

\* vercel handler (lines 72-178) up to its first await
handler(req) ==
    IF req.http = "GET"
    THEN Respond(Outcome("handler", 200, FALSE, 0, Null))
    ELSE IF ~env.PINATA_JWT
    THEN Respond(Outcome("handler", 500, FALSE, 0, Null))
    ELSE IF ~checkAuth(API_KEYS, req.apiKey)
    THEN Respond(Outcome("gate", 401, FALSE, 0, Null))
    ELSE IF req.body.empty
    THEN Respond(Outcome("handler", 400, FALSE, 0, Null))
    ELSE IF Known(req.sessionId) THEN Reuse(req)
    ELSE IF req.body.method = "initialize" THEN CreateVercel(req)
    ELSE IF Truthy(req.sessionId) /\ transports[req.sessionId] = NoTransport
    THEN Respond(Outcome("router", 404, TRUE, -32001, ReplyId(req.body)))
    ELSE Respond(Outcome("router", 400, TRUE, -32000, ReplyId(req.body)))

\* the host's entry point
Entry(req) == IF env.variant = "shared" THEN handleMCPSession(req) ELSE handler(req)

\* a request arrives and its handler runs to the first await or to its return
Handle(req) ==
    /\ Quiet
    /\ \E h \in {Entry(req)} :
          /\ BagCardinality(h.inflight) <= MaxInFlight
          /\ Len(h.objs) <= MaxTransports
          /\ transports' = h.transports
          /\ servers' = h.servers
          /\ objs' = h.objs
          /\ inflight' = h.inflight
          /\ reply' = h.reply
    /\ UNCHANGED <<env, uuids>>

----------------------------------------------------------------------------
(* After the await of server.connect *)

Resume(inv) == inflight (-) SetToBag({inv})

\* vercel lines 145-151: the cleanup handler is installed once connect returned
InstallOnClose(o) ==
    IF env.variant = "vercel" THEN [o EXCEPT !.onclose = TRUE] ELSE o

\* server.connect(transport): the server instance takes the transport as its
\* one transport, the one it sends through. The shared router connects every
\* transport to the same McpServer (line 97), which lets go of the transport
\* it had; the vercel handler connects each transport to a Server of its own.
connect(os, t) ==
    [i \in 1..Len(os) |->
        IF i = t THEN [os[i] EXCEPT !.attached = TRUE]
        ELSE IF env.variant = "shared" THEN [os[i] EXCEPT !.attached = FALSE]
        ELSE os[i]]

\* connect returned: the request is handed to the new transport
Connected(inv) ==
    /\ Quiet
    /\ inv.pc = "connecting"
    /\ objs' = [connect(objs, inv.transport) EXCEPT ![inv.transport] = InstallOnClose(@)]
    /\ inflight' = Resume(inv) (+) SetToBag({[inv EXCEPT !.pc = "handling"]})
    /\ UNCHANGED <<env, transports, servers, uuids, reply>>

\* connect raised: shared has no try around it (lines 181-195), the exception
\* leaves handleMCPSession; vercel's outer catch (lines 204-212) answers 500
\* unless the headers are out
ConnectRaises(inv, headersSent) ==
    /\ Quiet
    /\ inv.pc = "connecting"
    /\ inflight' = Resume(inv)
    /\ reply' = IF env.variant = "shared"
                THEN Outcome("uncaught", 0, FALSE, 0, Null)
                ELSE IF headersSent
                THEN Outcome("logged", 0, FALSE, 0, Null)
                ELSE Outcome("outer catch", 500, FALSE, 0, Null)
    /\ UNCHANGED <<env, transports, servers, objs, uuids>>

----------------------------------------------------------------------------
(* transport.handleRequest / transport.handlePostMessage *)

\* the callback given to createStreamableTransport (lines 65-71)
onSessionInitialized(store, newSessionId, t) ==
    [store EXCEPT ![newSessionId] = t]

\* The Streamable HTTP transport answers. An initialize message initializes it
\* once: it takes sessionIdGenerator() as its session id and fires the
\* session-initialized callback with it. Any other message is checked against
\* the session id the transport holds.
StreamableHandles(inv) ==
    /\ env.variant = "shared"
    /\ LET t == inv.transport
           o == objs[t]
       IN IF isInitializeRequest(inv.body)
          THEN IF o.generated # Undefined
               THEN /\ reply' = Outcome("transport", 400, TRUE, -32600, Null)
                    /\ UNCHANGED <<transports, objs, uuids>>
               ELSE /\ uuids' = uuids + 1
                    /\ objs' = [objs EXCEPT ![t].generated = UUIDs[uuids + 1]]
                    /\ transports' = onSessionInitialized(transports, UUIDs[uuids + 1], t)
                    /\ reply' = Outcome("transport", 200, TRUE, 0, inv.body.id)
          ELSE /\ reply' =
                    IF o.generated = Undefined \/ ~Truthy(inv.sessionId)
                    THEN Outcome("transport", 400, TRUE, -32000, Null)
                    ELSE IF inv.sessionId # o.generated
                    THEN Outcome("transport", 404, TRUE, -32001, Null)
                    ELSE Outcome("transport", 200, TRUE, 0, inv.body.id)
               /\ UNCHANGED <<transports, objs, uuids>>

\* The SSE transport accepts the posted message; it holds no store reference.
SSEHandles(inv) ==
    /\ env.variant = "vercel"
    /\ reply' = Outcome("transport", 202, FALSE, 0, Null)
    /\ UNCHANGED <<transports, objs, uuids>>

TransportHandles(inv) ==
    /\ Quiet
    /\ inv.pc = "handling"
    /\ StreamableHandles(inv) \/ SSEHandles(inv)
    /\ inflight' = Resume(inv)
    /\ UNCHANGED <<env, servers>>

\* a catch block that answers 500 without looking at res.headersSent
catchAlwaysAnswers(body, headersSent) ==
    Outcome("catch", 500, TRUE, -32603, ReplyId(body))

\* the catch of lines 243-262 / 186-203: what it writes to res (status 0 =
\* nothing, the error is only logged)
catchHandleRequest(body, headersSent) ==
    IF headersSent
    THEN Outcome("logged", 0, FALSE, 0, Null)
    ELSE Outcome("catch", 500, TRUE, -32603, ReplyId(body))

\* handling raised, with the response committed (headersSent) or not
TransportRaises(inv, headersSent) ==
    /\ Quiet
    /\ inv.pc = "handling"
    /\ inflight' = Resume(inv)
    /\ reply' = catchHandleRequest(inv.body, headersSent)
    /\ UNCHANGED <<env, transports, servers, objs, uuids>>

\* the client has the response; the handler invocation is over
Deliver ==
    /\ reply # NoReply
    /\ reply' = NoReply
    /\ UNCHANGED <<env, transports, servers, objs, uuids, inflight>>

----------------------------------------------------------------------------
(* Closure *)

\* the maps and objects a closure handler works on
Heap == [transports |-> transports, servers |-> servers, objs |-> objs]

\* a handler that invokes the callback before it deletes the entry
OnCloseSharedCallbackFirst(st, t, callbackRaises) ==
    LET sid == SessionIdOf(st.objs[t])
    IN IF Truthy(sid) /\ st.transports[sid] # NoTransport
       THEN [transports |-> IF callbackRaises THEN st.transports
                            ELSE Delete(st.transports, sid),
             servers |-> st.servers,
             objs |-> [st.objs EXCEPT ![t].deletes = @ + 1, ![t].cleanups = @ + 1]]
       ELSE st

\* transport.onclose of createAndSetupTransport (lines 74-84); the host passes
\* an onSessionClose callback, counted in cleanups, which returns or raises;
\* it is invoked after the delete
OnCloseShared(st, t, callbackRaises) ==
    LET sid == SessionIdOf(st.objs[t])
    IN IF Truthy(sid) /\ st.transports[sid] # NoTransport
       THEN [transports |-> Delete(st.transports, sid),
             servers |-> st.servers,
             objs |-> [st.objs EXCEPT ![t].deletes = @ + 1, ![t].cleanups = @ + 1]]
       ELSE st

\* a vercel closure handler that forgets the servers map
OnCloseVercelTransportsOnly(st, t) ==
    LET sid == st.objs[t].closureSid
    IN IF st.objs[t].onclose /\ Truthy(sid)
       THEN [transports |-> Delete(st.transports, sid),
             servers |-> st.servers,
             objs |-> IF st.transports[sid] # NoTransport
                      THEN [st.objs EXCEPT ![t].deletes = @ + 1]
                      ELSE st.objs]
       ELSE st

\* transport.onclose of the vercel handler (lines 145-151), if installed yet;
\* deletes counts the entries it really removed
OnCloseVercel(st, t) ==
    LET sid == st.objs[t].closureSid
    IN IF st.objs[t].onclose /\ Truthy(sid)
       THEN [transports |-> Delete(st.transports, sid),
             servers |-> Delete(st.servers, sid),
             objs |-> IF st.transports[sid] # NoTransport
                      THEN [st.objs EXCEPT ![t].deletes = @ + 1]
                      ELSE st.objs]
       ELSE st

\* the handler transport t runs when it signals closure
onclose(st, t, callbackRaises) ==
    IF env.variant = "shared" THEN OnCloseShared(st, t, callbackRaises)
    ELSE OnCloseVercel(st, t)

\* one closure signal of transport t
CloseSignal(st, t, callbackRaises) ==
    LET after == onclose(st, t, callbackRaises)
    IN [after EXCEPT !.objs[t].closes = @ + 1]

RECURSIVE SumCloses(_)
SumCloses(n) == IF n = 0 THEN 0 ELSE objs[n].closes + SumCloses(n - 1)

\* closure signals raised so far
ClosureSignals == SumCloses(Len(objs))

\* transport t signals closure; an exception of the cleanup callback leaves
\* the handler and reaches the transport
Close(t, callbackRaises) ==
    /\ Quiet
    /\ t \in 1..Len(objs)
    /\ ClosureSignals < MaxCloseSignals
    /\ \E after \in {CloseSignal(Heap, t, callbackRaises)} :
          /\ transports' = after.transports
          /\ servers' = after.servers
          /\ objs' = after.objs
          /\ reply' = IF callbackRaises /\ after.objs[t].cleanups > objs[t].cleanups
                      THEN Outcome("onclose raised", 0, FALSE, 0, Null)
                      ELSE reply
    /\ UNCHANGED <<env, uuids, inflight>>

----------------------------------------------------------------------------

Next ==
    \/ \E req \in Requests : Handle(req)
    \/ \E inv \in BagToSet(inflight) : Connected(inv)
    \/ \E inv \in BagToSet(inflight), headersSent \in BOOLEAN : ConnectRaises(inv, headersSent)
    \/ \E inv \in BagToSet(inflight) : TransportHandles(inv)
    \/ \E inv \in BagToSet(inflight), headersSent \in BOOLEAN : TransportRaises(inv, headersSent)
    \/ Deliver
    \/ \E t \in 1..MaxTransports, callbackRaises \in BOOLEAN : Close(t, callbackRaises)

Spec == Init /\ [][Next]_vars

----------------------------------------------------------------------------
(* The authentication gate on its own: every allow-list value, every key *)

\* character strings of length at most n
Strings(n) == UNION {[1..k -> Chars] : k \in 0..n}

AuthEnvs ==
    [variant : {"shared", "vercel"}, PINATA_JWT : {TRUE},
     MCP_API_KEYS : {Absent} \cup Strings(MaxEnvLen), fieldBacked : {FALSE}]

InitAuth ==
    /\ env \in AuthEnvs
    /\ transports = EmptyStore
    /\ servers = EmptyStore
    /\ objs = <<>>
    /\ uuids = 0
    /\ inflight = EmptyBag
    /\ reply = NoReply

\* checkAndRespond(apiKey, res) / checkAuth(apiKey, res): 401 when it returns false
CheckAndRespond(apiKey) ==
    /\ Quiet
    /\ reply' = [by |-> "checkAndRespond",
                 apiKey |-> apiKey,
                 authenticated |-> checkAuth(API_KEYS, apiKey),
                 status |-> IF checkAuth(API_KEYS, apiKey) THEN 0 ELSE 401]
    /\ UNCHANGED <<env, transports, servers, objs, uuids, inflight>>

NextAuth ==
    \/ \E apiKey \in {Absent} \cup Strings(MaxKeyLen) : CheckAndRespond(apiKey)
    \/ Deliver

SpecAuth == InitAuth /\ [][NextAuth]_vars

----------------------------------------------------------------------------
(* The call-tool handler of setupPinataTools on its own *)

ToolNames ==
    {"testAuthentication", "searchFiles", "getFileById", "updateFile",
     "deleteFile", "createGroup", "uploadFile", "uploadFiles"}

\* request.params.name: a registered tool or some other name
CalledNames == ToolNames \cup {"noSuchTool"}

\* request.params.arguments: undefined, {} or an object with the tool's fields
Arguments == {"absent", "empty", "given"}

\* what the upstream fetch does: an OK response, a non-OK one, a rejection
Upstream == {"ok", "notOk", "networkFailure"}

Thrown(message) == [thrown |-> TRUE, text |-> message]
Returned(text) == [thrown |-> FALSE, text |-> text]

\* the try block: the switch over the tool name, up to its return or throw
tryBlock(name, args, upstream) ==
    IF name \notin ToolNames THEN Thrown("Unknown tool")
    ELSE IF name # "testAuthentication" /\ args = "absent"
    THEN Thrown("TypeError: cannot destructure")
    ELSE IF name = "uploadFile" /\ args = "empty"
    THEN Thrown("Use sourceUrl or fileContent")
    ELSE IF name = "uploadFiles" /\ args = "empty"
    THEN Thrown("fileContents array is required")
    ELSE IF name \notin {"uploadFile", "uploadFiles"} /\ ~env.PINATA_JWT
    THEN Thrown("PINATA_JWT environment variable is not set")
    ELSE IF upstream = "networkFailure" THEN Thrown("fetch failed")
    ELSE IF upstream = "notOk" THEN Thrown("Failed: status")
    ELSE Returned("success")

\* errorResponse(error)
errorResponse(message) ==
    [escaped |-> FALSE, isError |-> TRUE, text |-> <<"Error: ", message>>]

\* successResponse(data) and the inline success payloads
successResponse(text) ==
    [escaped |-> FALSE, isError |-> FALSE, text |-> <<text>>]

\* a handler without the catch: the exception reaches the caller
callToolWithoutCatch(name, args, upstream) ==
    IF tryBlock(name, args, upstream).thrown
    THEN [escaped |-> TRUE, isError |-> FALSE,
          text |-> <<tryBlock(name, args, upstream).text>>]
    ELSE successResponse(tryBlock(name, args, upstream).text)

\* the handler registered for CallToolRequestSchema: try { switch } catch
callTool(name, args, upstream) ==
    IF tryBlock(name, args, upstream).thrown
    THEN errorResponse(tryBlock(name, args, upstream).text)
    ELSE successResponse(tryBlock(name, args, upstream).text)

ToolEnvs ==
    [variant : {"shared", "vercel"}, PINATA_JWT : BOOLEAN,
     MCP_API_KEYS : {Absent}, fieldBacked : {FALSE}]

InitTools ==
    /\ env \in ToolEnvs
    /\ transports = EmptyStore
    /\ servers = EmptyStore
    /\ objs = <<>>
    /\ uuids = 0
    /\ inflight = EmptyBag
    /\ reply = NoReply

\* the server dispatches a tools/call request to the handler
CallTool(name, args, upstream) ==
    /\ Quiet
    /\ reply' = [by |-> "callTool", name |-> name, args |-> args,
                 upstream |-> upstream, result |-> callTool(name, args, upstream)]
    /\ UNCHANGED <<env, transports, servers, objs, uuids, inflight>>

NextTools ==
    \/ \E name \in CalledNames, args \in Arguments, upstream \in Upstream :
          CallTool(name, args, upstream)
    \/ Deliver

SpecTools == InitTools /\ [][NextTools]_vars

----------------------------------------------------------------------------
(* Properties of the router *)

\* the keys the host's gate lets through
AcceptedKeys ==
    IF env.variant = "shared" THEN {Absent}
    ELSE {apiKey \in PresentedKeys : checkAuth(API_KEYS, apiKey)}

\* The requests with this session id and body that get as far as the session
\* router. handleMCPSession is the router and reads neither the HTTP method
\* nor the key; the vercel handler answers GET, a missing PINATA_JWT, a
\* rejected key and a missing body before it.
Routed(sessionId, body) ==
    IF env.variant = "vercel" /\ (~env.PINATA_JWT \/ body.empty) THEN {}
    ELSE {[http |-> "POST", sessionId |-> sessionId, apiKey |-> apiKey, body |-> body] :
             apiKey \in AcceptedKeys}

\* the body is a well-formed initialize message
InitializeMessage(body) == ~body.empty /\ body.method = "initialize" /\ body.params

\* the handler left the store, the servers and the transport objects alone
Untouched(h) ==
    /\ h.transports = transports
    /\ h.servers = servers
    /\ h.objs = objs

\* C1: a request whose session id has a live entry in the store is handed to
\* the stored transport, whatever its body (an initialize message included):
\* no transport is created, the store is not written, nothing is answered by
\* the router.
ReusePrecedence ==
    \A sessionId \in SessionHeaders \ {Undefined, ""} :
        transports[sessionId] # NoTransport =>
            \A body \in AllBodies : \A req \in Routed(sessionId, body) :
                \A h \in {Entry(req)} :
                    /\ Untouched(h)
                    /\ h.reply = NoReply
                    /\ h.inflight =
                          inflight (+) SetToBag({[pc |-> "handling",
                                                  sessionId |-> sessionId,
                                                  body |-> body,
                                                  transport |-> transports[sessionId]]})

\* an initialize message was handed to a transport that an earlier request
\* had created and that is stored under the message's session id
ReusedForInitialize ==
    \E inv \in BagToSet(inflight) :
        /\ inv.pc = "handling"
        /\ InitializeMessage(inv.body)
        /\ Truthy(inv.sessionId)
        /\ transports[inv.sessionId] = inv.transport
        /\ objs[inv.transport].closureSid # inv.sessionId

\* C2: when an initialize message without a session id has been answered by
\* its transport, the store holds that transport under exactly one id, which
\* was free before, so that a tools/list carrying that id reaches it.
FreshSessionRegistered ==
    [][\A inv \in BagToSet(inflight) :
          (/\ inv.pc = "handling"
           /\ InitializeMessage(inv.body)
           /\ ~Truthy(inv.sessionId)
           /\ inflight' = inflight (-) SetToBag({inv})
           /\ reply'.by = "transport"
           /\ reply'.status \in {200, 202})
          => /\ Cardinality({k \in SessionIds : transports'[k] = inv.transport}) = 1
             /\ \A k \in SessionIds :
                   transports'[k] = inv.transport => transports[k] = NoTransport]_vars

\* the id the host bound the new transport to
BoundId(o) == IF env.variant = "shared" THEN o.forcedSessionId ELSE o.closureSid

UnknownSessionRejected ==
    \A sessionId \in SessionHeaders \ {Undefined, ""} :
        transports[sessionId] = NoTransport =>
            \A body \in {b \in AllBodies : b.method # "initialize"} :
                \A req \in Routed(sessionId, body) : \A h \in {Entry(req)} :
                    /\ Untouched(h)
                    /\ h.inflight = inflight
                    /\ h.reply # NoReply
                    /\ h.reply.status = 404
                    /\ h.reply.jsonrpc
                    /\ h.reply.code = -32001

\* the router answered 404 while the store held a session under another id
AnsweredSessionNotFound ==
    /\ reply # NoReply
    /\ reply.by = "router"
    /\ reply.status = 404
    /\ \E k \in SessionIds : transports[k] # NoTransport

\* C5: a request without a session id (no header, or an empty one) that is
\* not an initialize message is answered 400 with JSON-RPC error -32000; no
\* transport is created and the store is unchanged.
MissingSessionRejected ==
    \A sessionId \in {Undefined, ""} :
        \A body \in {b \in AllBodies : b.method # "initialize"} :
            \A req \in Routed(sessionId, body) : \A h \in {Entry(req)} :
                /\ Untouched(h)
                /\ h.inflight = inflight
                /\ h.reply # NoReply
                /\ h.reply.status = 400
                /\ h.reply.jsonrpc
                /\ h.reply.code = -32000

\* the router answered 400 with the JSON-RPC error
AnsweredNoSessionId ==
    /\ reply # NoReply
    /\ reply.by = "router"
    /\ reply.status = 400
    /\ reply.code = -32000

\* C6: while the store holds an entry for a session id, the entry refers to
\* the same transport: the entry of transport t under the id it was created
\* for stays until t itself signals closure.
SessionStableUntilClosure ==
    [][\A t \in 1..Len(objs) :
          (/\ Truthy(objs[t].closureSid)
           /\ transports[objs[t].closureSid] = t
           /\ objs'[t].closes = 0)
          => transports'[objs[t].closureSid] = t]_vars

\* C7: once a transport has signalled closure no store entry refers to it.
ClosureCleansUp ==
    [][\A t \in 1..Len(objs) :
          objs'[t].closes > objs[t].closes
          => \A k \in SessionIds : transports'[k] # t]_vars

\* C8: a transport that was stored under a session id and has signalled
\* closure twice had its entry removed at most once and, where the host has a
\* cleanup callback, had the callback invoked exactly once.
ClosedTwiceCleansOnce ==
    \A t \in 1..Len(objs) :
        (objs[t].closes >= 2 /\ (Truthy(objs[t].closureSid) \/ objs[t].generated # Undefined))
        => /\ objs[t].deletes <= 1
           /\ env.variant = "shared" => objs[t].cleanups = 1

\* C9: the gate authenticates a request exactly when the allow-list is empty
\* or the request presents a non-empty key that is in the allow-list; it
\* answers 401 exactly when it does not authenticate.
AuthGateDecision ==
    (reply # NoReply /\ reply.by = "checkAndRespond")
    => /\ reply.authenticated <=>
             \/ API_KEYS = {}
             \/ reply.apiKey \notin {Absent, <<>>} /\ reply.apiKey \in API_KEYS
       /\ reply.status = 401 <=> ~reply.authenticated

\* the gate let a presented key through a non-empty allow-list of two keys
KeyAccepted ==
    /\ reply # NoReply
    /\ reply.by = "checkAndRespond"
    /\ reply.authenticated
    /\ Cardinality(API_KEYS) = 2
    /\ reply.apiKey # <<>>

\* C10: a request the gate rejects is answered 401 before any session work:
\* no transport is created or looked up and the store is unchanged.
AuthBeforeSession ==
    env.variant = "vercel" =>
        \A apiKey \in PresentedKeys \ AcceptedKeys :
            \A sessionId \in SessionHeaders, body \in AllBodies :
                \A h \in {Entry([http |-> "POST", sessionId |-> sessionId,
                                 apiKey |-> apiKey, body |-> body])} :
                    /\ Untouched(h)
                    /\ h.inflight = inflight
                    /\ h.reply # NoReply
                    /\ h.reply.status = 401

\* C11: when handling a message on a resolved transport raises, the router
\* catches it: with nothing sent yet it answers 500 with JSON-RPC error
\* -32603, with the response committed it writes nothing; no step that ends
\* the handling of a message lets an exception leave the router.
FailureSemantics ==
    [][\A inv \in BagToSet(inflight) :
          /\ \A headersSent \in BOOLEAN :
                TransportRaises(inv, headersSent) =>
                    IF headersSent
                    THEN reply'.status = 0 /\ reply'.by = "logged"
                    ELSE /\ reply'.status = 500
                         /\ reply'.jsonrpc
                         /\ reply'.code = -32603
          /\ (inv.pc = "handling" /\ inflight' = inflight (-) SetToBag({inv}))
             => reply'.by \in {"transport", "catch", "logged"}]_vars

\* the catch answered 500 for a message whose handling raised
AnsweredInternalError ==
    /\ reply # NoReply
    /\ reply.by = "catch"
    /\ reply.status = 500
    /\ reply.code = -32603

\* C12: once an initialize carrying the unknown id X has created a session
\* and been answered, a second identical initialize carrying X creates no
\* transport and the store holds exactly one entry for that session.
ForcedRecoveryIdempotent ==
    \A t \in 1..Len(objs) :
        (/\ Truthy(objs[t].closureSid)
         /\ transports[objs[t].closureSid] = t
         /\ \A inv \in BagToSet(inflight) : inv.transport # t)
        => \A body \in {b \in AllBodies : InitializeMessage(b)} :
              \A req \in Routed(objs[t].closureSid, body) : \A h \in {Entry(req)} :
                  /\ Len(h.objs) = Len(objs)
                  /\ Cardinality({k \in SessionIds : h.transports[k] = t}) = 1

\* C13: a creation without a session id (no header, or an empty one) leaves
\* the store and the servers as they were: the new transport is referred to
\* by no entry.
EphemeralCreation ==
    \A sessionId \in {Undefined, ""} :
        \A body \in {b \in AllBodies : InitializeMessage(b)} :
            \A req \in Routed(sessionId, body) : \A h \in {Entry(req)} :
                /\ Len(h.objs) = Len(objs) + 1
                /\ h.transports = transports
                /\ h.servers = servers
                /\ \A k \in SessionIds : h.transports[k] # Len(objs) + 1
                /\ h.reply = NoReply

\* a transport created without a session id is being connected and no entry
\* refers to it
CreatedUnregistered ==
    \E inv \in BagToSet(inflight) :
        /\ inv.pc = "connecting"
        /\ ~Truthy(inv.sessionId)
        /\ \A k \in SessionIds : transports[k] # inv.transport

\* C14: every answer that rejects a request (status 400 or above) is a JSON
\* error that carries a numeric error code.
RejectionsCarryCode ==
    (reply # NoReply /\ reply.status >= 400) => reply.jsonrpc /\ reply.code # 0

\* C15: with PINATA_JWT unset an authenticated POST with a body is still
\* resolved by the session router: it is handed to a transport (reuse,
\* create) or answered by the router (404, 400).
RoutingWithoutUpstreamCredential ==
    (env.variant = "vercel" /\ ~env.PINATA_JWT) =>
        \A apiKey \in AcceptedKeys, sessionId \in SessionHeaders :
            \A body \in AllBodies \ {NoBody} :
                \A h \in {Entry([http |-> "POST", sessionId |-> sessionId,
                                 apiKey |-> apiKey, body |-> body])} :
                    h.reply = NoReply \/ h.reply.by = "router"

\* C16: a POST of notifications/initialized is never refused by the router:
\* whatever the session header and the store, it is handed to a transport or
\* answered 200.
InitializedNotificationAccepted ==
    \A sessionId \in SessionHeaders :
        \A body \in {b \in AllBodies : b.method = "notifications/initialized"} :
            \A req \in Routed(sessionId, body) : \A h \in {Entry(req)} :
                h.reply = NoReply \/ h.reply.status = 200

\* C17: for every tool name (one outside the registry included), every
\* argument value (absent included) and every outcome of the upstream call,
\* the call-tool handler returns a result, a success payload or one with
\* isError set, and no exception escapes; an unknown name, absent arguments
\* of a tool that reads them and a failed upstream call give isError.
DispatchErrorsInBand ==
    (reply # NoReply /\ reply.by = "callTool") =>
        /\ ~reply.result.escaped
        /\ reply.result.isError \in BOOLEAN
        /\ (\/ reply.name \notin ToolNames
            \/ reply.upstream # "ok"
            \/ reply.args = "absent" /\ reply.name # "testAuthentication")
           => reply.result.isError
        /\ ~reply.result.isError => reply.upstream = "ok" /\ reply.name \in ToolNames

\* a call of a name outside the registry came back as an isError result
UnknownToolInBand ==
    /\ reply # NoReply
    /\ reply.by = "callTool"
    /\ reply.name \notin ToolNames
    /\ reply.result.isError
    /\ ~reply.result.escaped

\* C18: in the shared router every store entry k -> t has k equal to the
\* session id t reports, and so no transport is stored under two keys.
StoreKeyIsTransportIdentity ==
    env.variant = "shared" =>
        /\ \A k \in SessionIds :
              transports[k] # NoTransport => SessionIdOf(objs[transports[k]]) = k
        /\ \A k1, k2 \in SessionIds :
              (transports[k1] # NoTransport /\ transports[k1] = transports[k2])
              => k1 = k2

\* C19: a closure signal of transport t leaves every entry that refers to
\* another transport in place, and invokes the cleanup callback only when it
\* removed an entry of t.
ClosureRemovesOnlyOwnEntry ==
    [][\A t \in 1..Len(objs) :
          objs'[t].closes > objs[t].closes =>
              /\ \A k \in SessionIds :
                    (transports[k] # NoTransport /\ transports[k] # t)
                    => transports'[k] = transports[k]
              /\ objs'[t].cleanups > objs[t].cleanups =>
                    \E k \in SessionIds :
                        transports[k] = t /\ transports'[k] = NoTransport]_vars

\* C20: when connecting the new transport raises, the request ends with no
\* store entry that refers to the never-connected transport.
FailedCreationLeavesNoTrace ==
    [][\A inv \in BagToSet(inflight) : \A headersSent \in BOOLEAN :
          ConnectRaises(inv, headersSent) =>
              \A k \in SessionIds : transports'[k] # inv.transport]_vars

\* C21: every transport that has a store entry has its closure handler
\* installed, and a closure signalled now removes that entry.
EntryHasRemovalHandler ==
    \A k \in SessionIds :
        transports[k] # NoTransport =>
            /\ objs[transports[k]].onclose
            /\ \A callbackRaises \in BOOLEAN :
                  CloseSignal(Heap, transports[k], callbackRaises).transports[k]
                      = NoTransport

\* C22: while the initialize that created the transport for the unknown id X
\* is suspended in connect (no closure signalled), X has one transport, it is
\* the one stored under X, and another initialize carrying X is handed to it
\* by the reuse path without creating a transport.
ConcurrentInitializeCreatesOne ==
    ClosureSignals = 0 =>
        \A inv \in BagToSet(inflight) :
            (inv.pc = "connecting" /\ Truthy(inv.sessionId)) =>
                /\ transports[inv.sessionId] = inv.transport
                /\ Cardinality({t \in 1..Len(objs) :
                                  objs[t].closureSid = inv.sessionId}) = 1
                /\ \A body \in {b \in AllBodies : InitializeMessage(b)} :
                      \A req \in Routed(inv.sessionId, body) : \A h \in {Entry(req)} :
                          /\ Untouched(h)
                          /\ h.reply = NoReply
                          /\ h.inflight =
                                inflight (+) SetToBag({[pc |-> "handling",
                                                        sessionId |-> inv.sessionId,
                                                        body |-> body,
                                                        transport |-> inv.transport]})

\* two initialize requests carrying the same id are in flight, one suspended
\* in connect and one handed to the same transport, and one transport exists
TwoInitializesOneTransport ==
    /\ Len(objs) = 1
    /\ \E inv1, inv2 \in BagToSet(inflight) :
          /\ inv1.pc = "connecting"
          /\ inv2.pc = "handling"
          /\ Truthy(inv1.sessionId)
          /\ inv2.sessionId = inv1.sessionId
          /\ inv2.transport = inv1.transport
          /\ InitializeMessage(inv1.body)
          /\ InitializeMessage(inv2.body)

\* C23: a request handed to the transport of a session that was created
\* without a session id (so that its connect has returned before any request
\* is handed to it) is answered through that transport: the server instance
\* it was connected to still sends through it.
ResponseThroughOwnTransport ==
    [][\A inv \in BagToSet(inflight) :
          (/\ inv.pc = "handling"
           /\ ~Truthy(objs[inv.transport].closureSid)
           /\ inflight' = inflight (-) SetToBag({inv})
           /\ reply'.by = "transport"
           /\ reply'.status \in {200, 202})
          => objs[inv.transport].attached]_vars

\* C24: while a request of a known session is suspended in transport
\* handling, every further request carrying the session's id is handed to the
\* same stored transport at once; the first one stays as it is and nothing is
\* answered by the router.
ConcurrentRequestsShareTransport ==
    \A inv \in BagToSet(inflight) :
        (/\ inv.pc = "handling"
         /\ Truthy(inv.sessionId)
         /\ transports[inv.sessionId] = inv.transport)
        => \A body \in AllBodies :
              \A req \in Routed(inv.sessionId, body) : \A h \in {Entry(req)} :
                  /\ Untouched(h)
                  /\ h.reply = NoReply
                  /\ h.inflight =
                        inflight (+) SetToBag({[pc |-> "handling",
                                                sessionId |-> inv.sessionId,
                                                body |-> body,
                                                transport |-> inv.transport]})

\* two requests of one session are suspended in handling on the same transport
TwoRequestsInHandling ==
    \E inv \in BagToSet(inflight) :
        /\ inv.pc = "handling"
        /\ Truthy(inv.sessionId)
        /\ transports[inv.sessionId] = inv.transport
        /\ \/ CopiesIn(inv, inflight) = 2
           \/ \E other \in BagToSet(inflight) \ {inv} :
                 /\ other.pc = "handling"
                 /\ other.sessionId = inv.sessionId
                 /\ other.transport = inv.transport

\* C25: a store entry (of the transports map or of the servers map) goes away
\* or changes only in a step in which a transport signals closure and its
\* closure handler runs; no step of a request handler removes an entry, and
\* the requests in flight are left as they are.
RemovalOnlyAtClosure ==
    [][\A k \in SessionIds :
          (\/ transports[k] # NoTransport /\ transports'[k] # transports[k]
           \/ servers[k] # NoTransport /\ servers'[k] # servers[k])
          => /\ Len(objs') = Len(objs)
             /\ inflight' = inflight
             /\ \E t \in 1..Len(objs) :
                   /\ objs'[t].closes = objs[t].closes + 1
                   /\ objs'[t].deletes = objs[t].deletes + 1]_vars

\* a closure handler has removed the entry of a transport that still has a
\* request in handling
EntryRemovedAtClosure ==
    \E inv \in BagToSet(inflight) :
        inv.pc = "handling" /\ objs[inv.transport].deletes > 0

\* C26: the store is not written when a transport is created for an
\* initialize request without a session id, nor when it is connected; an
\* entry that refers to such a transport appears only in the step in which
\* the transport is initialized, under the identifier it generates then.
DeferredRegistration ==
    [][/\ (Len(objs') > Len(objs) /\ ~Truthy(objs'[Len(objs')].closureSid))
             => transports' = transports
       /\ \A t \in 1..Len(objs') : \A k \in SessionIds :
             (/\ ~Truthy(objs'[t].closureSid)
              /\ transports'[k] = t
              /\ transports[k] # t)
             => /\ t <= Len(objs)
                /\ objs[t].generated = Undefined
                /\ objs'[t].generated = k]_vars

\* a transport created without a session id is stored under the identifier
\* it generated at its initialization
RegisteredByCallback ==
    \E t \in 1..Len(objs) :
        /\ ~Truthy(objs[t].closureSid)
        /\ objs[t].generated # Undefined
        /\ transports[objs[t].generated] = t

\* C27: when the cleanup callback raises during a closure, the entry under
\* the closing transport's session id is gone from the store all the same.
RemovalDespiteFailingCleanup ==
    [][(reply = NoReply /\ reply'.by = "onclose raised") =>
          \E t \in 1..Len(objs) :
              /\ objs'[t].closes = objs[t].closes + 1
              /\ objs'[t].cleanups = objs[t].cleanups + 1
              /\ transports[SessionIdOf(objs[t])] # NoTransport
              /\ transports'[SessionIdOf(objs[t])] = NoTransport]_vars

\* a cleanup callback has raised and the store holds no entry any more
CleanupRaisedEntryGone ==
    /\ reply.by = "onclose raised"
    /\ \E t \in 1..Len(objs) : objs[t].cleanups > 0
    /\ \A k \in SessionIds : transports[k] = NoTransport

\* C28: every JSON-RPC error reply of the router (404, 400) and of the catch
\* around transport handling (500) carries the id of the request it answers,
\* the number 0 included; null only when the request has no id.
ErrorRepliesEchoId ==
    /\ \A sessionId \in SessionHeaders : \A body \in AllBodies :
          \A req \in Routed(sessionId, body) : \A h \in {Entry(req)} :
              (h.reply # NoReply /\ h.reply.by = "router") =>
                  h.reply.id = IF body.id = NoId THEN Null ELSE body.id
    /\ \A inv \in BagToSet(inflight) :
          catchHandleRequest(inv.body, FALSE).id =
              IF inv.body.id = NoId THEN Null ELSE inv.body.id

\* C30: in the vercel handler the transports map and the servers map have
\* the same keys.
MapsInStep ==
    env.variant = "vercel" =>
        \A k \in SessionIds :
            (transports[k] = NoTransport) <=> (servers[k] = NoTransport)

\* vercel: a session is stored in both maps after a closure handler had
\* removed it from both
StoredAndRemovedInBoth ==
    /\ env.variant = "vercel"
    /\ \E k \in SessionIds : transports[k] # NoTransport /\ servers[k] # NoTransport
    /\ \E t \in 1..Len(objs) : objs[t].deletes > 0

\* the allow-list value holds no key: it is unset, empty or all blanks
HoldsNoKey(value) ==
    value = Absent \/ \A i \in 1..Len(value) : value[i] = " "

\* C29: with MCP_API_KEYS unset, empty or blank the allow-set is empty, the
\* empty string is not a member of it, and every request passes the gate.
NoKeysDisablesAuth ==
    HoldsNoKey(env.MCP_API_KEYS) =>
        /\ API_KEYS = {}
        /\ <<>> \notin API_KEYS
        /\ \A apiKey \in {Absent} \cup Strings(MaxKeyLen) : checkAuth(API_KEYS, apiKey)
        /\ reply.by = "checkAndRespond" => reply.authenticated

====
